---- MODULE Spec2Model ----
(***************************************************************************)
(* Fights In The Forest game server: one room of the match state machine   *)
(* and session lifecycle (events/socket_handlers.py,                       *)
(* events/game_handlers.py, routes/room_routes.py).                        *)
(*                                                                         *)
(* The persisted room document is the variable room; every handler reads   *)
(* it, works on an in-memory copy and writes it back with room_ref.set.    *)
(* The process-local dictionaries of config.py are active_rooms,           *)
(* active_turn_timers and disconnection_timers.  Each handler is one       *)
(* atomic action (one in-flight handler per room).                         *)
(***************************************************************************)
EXTENDS Integers, Sequences, FiniteSets, TLC

\* ---------------------------------------------------------------- bounds
\* Accepted make_move / skip_turn requests are cut off once chat_log holds
\* MaxChat entries (every accepted request appends one or two entries, and
\* turn only grows with them).
MaxChat == 4

\* ------------------------------------------------------------ input sets
Users == {"a", "b", "c"}
Groups == {"group1", "group2"}
CharNames == {"Kara"}
SIDs == {1, 2}
Values == {0, 25, 50}
MoveTypes == {"a", "h"}

\* ------------------------------------------------------ program constants
StartHealth == 50
MaxHealth == 50
FirstTurn == 1
RoundsPerEntry == 15
SkipRoundLimit == 10

\* A key that is absent from a dict / Python None.
NoKey == "<none>"
\* find_next_active_player's "" result.
NoPlayer == ""

VARIABLES
    room,                  \* the persisted room document (db.collection('rooms'))
    active_rooms,          \* sessions of the room: sequence of [sid, username]
    active_turn_timers,    \* turn-timer record of the room, or NoKey
    disconnection_timers,  \* the usernames whose key username_room is in disconnection_timers
    timers,                \* per username, the state of the latest threading.Timer made for it
    old_timers,            \* earlier timers, replaced while waiting or running: [username, state]
    in_flight              \* per running handler, where it stands and its local room_data

vars == <<room, active_rooms, active_turn_timers, disconnection_timers, timers, old_timers, in_flight>>

\* ------------------------------------------------------------ dict / list
Put(f, k, v) == [x \in (DOMAIN f) \cup {k} |-> IF x = k THEN v ELSE f[x]]

Del(f, k) == [x \in (DOMAIN f) \ {k} |-> f[x]]

EmptyDict == [x \in {} |-> 0]

Range(s) == {s[i] : i \in 1..Len(s)}

\* list.index(x), 1-based; 0 when x is not in the list
IndexOf(s, x) == IF x \in Range(s) THEN CHOOSE i \in 1..Len(s) : s[i] = x /\ \A j \in 1..(i-1) : s[j] # x ELSE 0

\* list.remove(x): drops the first occurrence
ListRemove(s, x) == IF x \in Range(s) THEN SubSeq(s, 1, IndexOf(s, x) - 1) \o SubSeq(s, IndexOf(s, x) + 1, Len(s)) ELSE s

\* all draws of as many elements with repeats
ShufflesWithRepeats(S) == [1..Cardinality(S) -> S]

\* all orderings of a finite set, each element once (random.shuffle of list(players))
Shuffles(S) == {p \in [1..Cardinality(S) -> S] : \A i, j \in 1..Cardinality(S) : p[i] = p[j] => i = j}

\* ------------------------------------------------------------- encryption
\* encrypt_for_database wraps the plaintext in {"encrypted": True, "data": <ciphertext>};
\* the ciphertext is modelled by the plaintext it decrypts to.
encrypt_for_database(data) == [encrypted |-> TRUE, data |-> data]

\* a dict kept in the clear (the in-memory value after decryption)
Plain(data) == [encrypted |-> FALSE, data |-> data]

decrypt_from_database(stored) == stored.data

\* the keys Python's `in` sees on a stored value: the wrapper's own keys when encrypted
DictKeys(stored) == IF stored.encrypted THEN {"encrypted", "data"} ELSE DOMAIN stored.data

\* `del stored[k]` when k is one of the keys `in` sees (a plain dict only: usernames are
\* never the wrapper's keys)
DictDel(stored, k) == IF stored.encrypted THEN stored ELSE Plain(Del(stored.data, k))

\* ------------------------------------------------------- running handlers
\* The handler runs that may overlap: two socket handlers of the turn events and the
\* thread of a disconnect timer.
Runs == {"h1", "h2", "timer"}

\* a run that has not read the store; room_data is its local copy of the document
Idle == [pc |-> "idle", kind |-> NoKey, username |-> NoKey, turn |-> 0, game_over |-> FALSE,
         room_data |-> [status |-> NoKey]]

NoneInFlight == [k \in Runs |-> Idle]

\* ------------------------------------------------------------------ Init
\* create_room by user "a": the room document and the empty registry entry.
Init ==
    /\ room = [ players |-> {"a"},
                group1 |-> EmptyDict,
                group2 |-> EmptyDict,
                ready_players |-> {},
                character_health |-> encrypt_for_database(EmptyDict),
                chat_log |-> <<>>,
                status |-> "not started",
                turn |-> FirstTurn,
                player_order |-> <<>>,
                current_player |-> NoKey,
                next_player |-> NoKey,
                winner |-> NoKey ]
    /\ active_rooms = <<>>
    /\ active_turn_timers = NoKey
    /\ disconnection_timers = {}
    /\ timers = [u \in Users |-> "none"]
    /\ old_timers = <<>>
    /\ in_flight = NoneInFlight

\* --------------------------------------------------------- turn machinery
\* player_order[i] with Python's 0-based index i
At0(s, i) == s[i + 1]

Min(S) == CHOOSE x \in S : \A y \in S : x <= y

\* find_next_active_player(room_code, current_player, player_order); db is the document
\* the function reads from the store.
find_next_active_player(db, current_player, player_order) ==
    IF Len(player_order) <= 1 THEN NoPlayer
    ELSE LET character_health == decrypt_from_database(db.character_health)
             n == Len(player_order)
             current_index == IndexOf(player_order, current_player) - 1
             Cand(i) == At0(player_order, (current_index + i) % n)
             alive == {i \in 1..n : Cand(i) \in DOMAIN character_health /\ character_health[Cand(i)] > 0}
         IN IF alive # {} THEN Cand(Min(alive)) ELSE At0(player_order, (current_index + 1) % n)

\* start_turn_timer(room_code, current_player, next_player): the stored record
start_turn_timer(current_player, next_player) == [current_player |-> current_player, next_player |-> next_player]

\* the cached value or, with no cached value, the computed one (lines 301-304, 562-565)
CurrentPlayerOf(db) ==
    IF db.current_player # NoKey THEN db.current_player
    ELSE At0(db.player_order, db.turn % Len(db.player_order))

\* next_turn(room_code) on the stored document db: the document it leaves in the store
\* and the pair it returns ((None, None) is (NoKey, NoKey)).
next_turn(db) ==
    LET current_turn == db.turn + 1
        character_health == decrypt_from_database(db.character_health)
        Alive(p) == p \in DOMAIN character_health /\ character_health[p] > 0
        updated_player_order == SelectSeq(db.player_order, Alive)
        nothing == [room |-> db, current_player |-> NoKey, next_player |-> NoKey]
    IN IF db.status # "started" THEN nothing
       ELSE IF db.player_order = <<>> THEN nothing
       ELSE IF updated_player_order = <<>> THEN nothing
       ELSE LET current_player == IF db.next_player # NoKey THEN db.next_player
                                  ELSE At0(updated_player_order, current_turn % Len(updated_player_order))
                next_player == find_next_active_player(db, current_player, updated_player_order)
            IN [room |-> [db EXCEPT !.turn = current_turn,
                                    !.player_order = updated_player_order,
                                    !.current_player = current_player,
                                    !.next_player = next_player,
                                    !.character_health = encrypt_for_database(character_health)],
                current_player |-> current_player,
                next_player |-> next_player]

\* start_first_turn(room_code): the document it leaves and whether it armed the timer
start_first_turn(db) ==
    IF db.status # "started" \/ db.player_order = <<>> THEN [room |-> db, armed |-> FALSE]
    ELSE LET current_player == At0(db.player_order, db.turn % Len(db.player_order))
             next_player == find_next_active_player(db, current_player, db.player_order)
         IN [room |-> [db EXCEPT !.current_player = current_player, !.next_player = next_player],
             armed |-> TRUE]

\* ------------------------------------------------------------ make_move
Max2(x, y) == IF x >= y THEN x ELSE y

Min2(x, y) == IF x <= y THEN x ELSE y

RECURSIVE SumHealth(_, _)
SumHealth(character_health, S) ==
    IF S = {} THEN 0
    ELSE LET k == CHOOSE x \in S : TRUE IN character_health[k] + SumHealth(character_health, S \ {k})

\* Python's `sub in text` on two strings; no username of Users is part of another one
\* and "" holds none of them.
StrContains(text, sub) == text = sub

\* the effect without the saturation at 0 and at MaxHealth
ApplyEffectUnclamped(move_type, current_health, value) ==
    IF move_type = "a" THEN current_health - value
    ELSE current_health + value

\* the effect of a move on the target's health (lines 357-362)
ApplyEffect(move_type, current_health, value) ==
    IF move_type = "a" THEN Max2(0, current_health - value)
    ELSE Min2(MaxHealth, current_health + value)

\* one chat_log entry as stored by encrypt_for_database
ChatEntry(kind, turn) == encrypt_for_database([kind |-> kind, turn |-> turn])

\* no member of the group has a health entry above 0 (lines 391-402)
AllDead(rd, g, character_health) ==
    \A p \in DOMAIN rd[g] : ~(p \in DOMAIN character_health /\ character_health[p] > 0)

\* winner at the round limit of on_make_move (lines 417-432)
RoundLimitWinner(rd, character_health) ==
    LET group1_health == SumHealth(character_health, (DOMAIN character_health) \cap (DOMAIN rd.group1))
        group2_health == SumHealth(character_health, ((DOMAIN character_health) \ (DOMAIN rd.group1)) \cap (DOMAIN rd.group2))
    IN IF group1_health > group2_health THEN "group1"
       ELSE IF group2_health > group1_health THEN "group2"
       ELSE "tie"

\* the verdict that looks at the round limit only, as on_skip_turn does
MoveVerdictLimitOnly(rd, character_health, current_turn) ==
    IF current_turn >= Cardinality(DOMAIN character_health) * RoundsPerEntry
    THEN <<TRUE, RoundLimitWinner(rd, character_health)>>
    ELSE <<FALSE, NoKey>>

\* the verdict without a round limit
MoveVerdictNoLimit(rd, character_health, current_turn) ==
    IF AllDead(rd, "group1", character_health) THEN <<TRUE, "group2">>
    ELSE IF AllDead(rd, "group2", character_health) THEN <<TRUE, "group1">>
    ELSE <<FALSE, NoKey>>

\* game over and winner after a move (lines 405-432): <<game_over, winner>>
MoveVerdict(rd, character_health, current_turn) ==
    IF AllDead(rd, "group1", character_health) THEN <<TRUE, "group2">>
    ELSE IF AllDead(rd, "group2", character_health) THEN <<TRUE, "group1">>
    ELSE IF current_turn >= Cardinality(DOMAIN character_health) * RoundsPerEntry
         THEN <<TRUE, RoundLimitWinner(rd, character_health)>>
    ELSE <<FALSE, NoKey>>

\* the turn check that ignores the cached current_player
NotYourTurnUncached(db, username) ==
    At0(db.player_order, db.turn % Len(db.player_order)) # username

\* the turn check of on_make_move and on_skip_turn (lines 306, 567)
NotYourTurn(db, username) == CurrentPlayerOf(db) # username

\* a rejection that stores the next turn number all the same
RejectedAdvancing(db, error) ==
    [result |-> error, room |-> [db EXCEPT !.turn = @ + 1], timer |-> NoKey, rearm |-> FALSE]

Rejected(db, error) == [result |-> error, room |-> db, timer |-> NoKey, rearm |-> FALSE]

\* on_make_move on the stored document db (a request without its type is the request
\* with a missing required field):
\* the response, the document left in the store and the turn timer it arms.
on_make_move(db, username, ability_known, target_player, move_type, value) ==
    IF move_type = NoKey THEN Rejected(db, "Missing required fields")
    ELSE IF db.player_order = <<>> THEN Rejected(db, "No players in game order")
    ELSE IF NotYourTurn(db, username) THEN Rejected(db, "Not your turn")
    ELSE IF ~ability_known THEN Rejected(db, "Ability not found")
    ELSE IF target_player \notin (DOMAIN db.group1) \cup (DOMAIN db.group2) THEN Rejected(db, "Target not found")
    ELSE
    LET character_health == decrypt_from_database(db.character_health)
        current_turn == db.turn
        current_player == CurrentPlayerOf(db)
        current_health == IF target_player \in DOMAIN character_health
                          THEN character_health[target_player] ELSE StartHealth
        new_health == ApplyEffect(move_type, current_health, value)
        health1 == Put(character_health, target_player, new_health)
        chat1 == Append(db.chat_log, ChatEntry("move", current_turn))
        removed == new_health <= 0 /\ target_player \in Range(db.player_order)
    IN  \* line 385 reads game_state['next_player']: a KeyError when the key was never set;
        \* the handler's except branch answers with an error and nothing is stored
        IF removed /\ db.next_player = NoKey THEN Rejected(db, "Error making move")
        ELSE
        LET next1 == IF removed /\ StrContains(db.next_player, target_player)
                     THEN find_next_active_player(db, current_player, db.player_order)
                     ELSE db.next_player
            order1 == IF removed THEN ListRemove(db.player_order, target_player) ELSE db.player_order
            rd == [db EXCEPT !.chat_log = chat1, !.next_player = next1, !.player_order = order1]
            verdict == MoveVerdict(rd, health1, current_turn)
            game_over == verdict[1]
            saved == IF game_over
                     THEN [rd EXCEPT !.chat_log = Append(chat1, ChatEntry("end", current_turn)),
                                     !.status = "ended",
                                     !.winner = verdict[2],
                                     !.character_health = encrypt_for_database(health1)]
                     ELSE [rd EXCEPT !.character_health = encrypt_for_database(health1)]
            advanced == next_turn(saved)
        IN IF game_over
           THEN [result |-> "success", room |-> saved, timer |-> NoKey, rearm |-> FALSE]
           ELSE [result |-> "success", room |-> advanced.room,
                 timer |-> start_turn_timer(advanced.current_player, advanced.next_player),
                 rearm |-> TRUE]

\* ------------------------------------------------------------ skip_turn
\* winner at the round limit of on_skip_turn (lines 591-617): a health entry counts for
\* a group when its key equals a character name of that group
SkipLimitWinner(rd, character_health) ==
    LET InGroup(g, k) == \E p \in DOMAIN rd[g] : rd[g][p] = k
        keys1 == {k \in DOMAIN character_health : InGroup("group1", k)}
        keys2 == {k \in DOMAIN character_health : ~InGroup("group1", k) /\ InGroup("group2", k)}
        group1_health == SumHealth(character_health, keys1)
        group2_health == SumHealth(character_health, keys2)
    IN IF group1_health > group2_health THEN "group1"
       ELSE IF group2_health > group1_health THEN "group2"
       ELSE "tie"

\* chat_log with every stored entry decrypted (lines 544-552)
DecryptChat(chat_log) == [i \in 1..Len(chat_log) |-> Plain(decrypt_from_database(chat_log[i]))]

on_skip_turn(db, username) ==
    IF db.player_order = <<>> THEN Rejected(db, "No players in game order")
    ELSE IF NotYourTurn(db, username) THEN Rejected(db, "Not your turn")
    ELSE
    LET character_health == decrypt_from_database(db.character_health)
        current_turn == db.turn
        chat1 == Append(DecryptChat(db.chat_log), ChatEntry("skip", current_turn))
        game_over == current_turn >= SkipRoundLimit
        saved == IF game_over
                 THEN [db EXCEPT !.chat_log = Append(chat1, ChatEntry("end", current_turn)),
                                 !.status = "ended",
                                 !.winner = SkipLimitWinner(db, character_health),
                                 !.character_health = encrypt_for_database(character_health)]
                 ELSE [db EXCEPT !.chat_log = chat1,
                                 !.character_health = encrypt_for_database(character_health)]
        advanced == next_turn(saved)
    IN IF game_over
       THEN [result |-> "success", room |-> saved, timer |-> NoKey, rearm |-> FALSE]
       ELSE [result |-> "success", room |-> advanced.room,
             timer |-> start_turn_timer(advanced.current_player, advanced.next_player),
             rearm |-> TRUE]

\* ---------------------------------------------------------------- lobby
\* the start conditions asking for a member in either group only
AllReadyEitherGroup(rd) ==
    /\ rd.players # {}
    /\ Cardinality(rd.players) >= 2
    /\ Cardinality(DOMAIN rd.group1) >= 1 \/ Cardinality(DOMAIN rd.group2) >= 1
    /\ rd.ready_players = rd.players

\* the start conditions of check_all_ready (lines 20-35)
AllReady(rd) ==
    /\ rd.players # {}
    /\ Cardinality(rd.players) >= 2
    /\ Cardinality(DOMAIN rd.group1) >= 1
    /\ Cardinality(DOMAIN rd.group2) >= 1
    /\ rd.ready_players = rd.players

\* check_all_ready(room_data, room_code); player_list is the outcome of random.shuffle
check_all_ready(rd, player_list) ==
    IF AllReady(rd)
    THEN [rd EXCEPT !.status = "started",
                    !.player_order = player_list,
                    !.character_health = encrypt_for_database(decrypt_from_database(@))]
    ELSE rd

\* remove_player_from_rooms(username) on this room (routes/room_routes.py)
remove_player_from_rooms(db, username) ==
    [db EXCEPT !.players = @ \ {username},
               !.group1 = Del(@, username),
               !.group2 = Del(@, username),
               !.ready_players = @ \ {username},
               !.player_order = ListRemove(@, username)]

\* POST /join_room_route
join_room_route(username) ==
    LET room_data == remove_player_from_rooms(room, username)
    IN /\ room' = IF room_data.status = "started"
                  THEN room_data
                  ELSE [room_data EXCEPT !.players = @ \cup {username}]
       /\ UNCHANGED <<active_rooms, active_turn_timers, disconnection_timers, timers, old_timers, in_flight>>

\* join_group without the removal from the group occupied before
join_group_keep(username, group, character_name) ==
    LET character_health == decrypt_from_database(room.character_health)
        health1 == IF username \in DOMAIN character_health THEN character_health
                   ELSE Put(character_health, username, StartHealth)
    IN /\ room' = [room EXCEPT ![group] = Put(@, username, character_name),
                               !.character_health = encrypt_for_database(health1)]
       /\ UNCHANGED <<active_rooms, active_turn_timers, disconnection_timers, timers, old_timers, in_flight>>

\* socket event join_group
join_group(username, group, character_name) ==
    LET character_health == decrypt_from_database(room.character_health)
        health1 == IF username \in DOMAIN character_health THEN character_health
                   ELSE Put(character_health, username, StartHealth)
        cleared == [room EXCEPT !.group1 = Del(@, username), !.group2 = Del(@, username)]
    IN /\ room' = [cleared EXCEPT ![group] = Put(@, username, character_name),
                                  !.character_health = encrypt_for_database(health1)]
       /\ UNCHANGED <<active_rooms, active_turn_timers, disconnection_timers, timers, old_timers, in_flight>>

\* socket event press_ready
press_ready(username) ==
    LET room_data == [room EXCEPT !.ready_players = @ \cup {username}]
    IN /\ \E player_list \in Shuffles(room_data.players) :
              room' = check_all_ready(room_data, player_list)
       /\ UNCHANGED <<active_rooms, active_turn_timers, disconnection_timers, timers, old_timers, in_flight>>

\* socket event unpress_ready
unpress_ready(username) ==
    /\ room' = [room EXCEPT !.ready_players = @ \ {username}]
    /\ UNCHANGED <<active_rooms, active_turn_timers, disconnection_timers, timers, old_timers, in_flight>>

\* ------------------------------------------------------------- sessions
\* a cancel that leaves the timer waiting
CancelNothing(username) == timers

\* a cancel that also stops a timer whose function is running
CancelAny(username) == [timers EXCEPT ![username] = IF @ = "none" THEN @ ELSE "canceled"]

\* threading.Timer.cancel(): a timer that is still waiting will not run its function
Cancel(username) == [timers EXCEPT ![username] = IF @ = "armed" THEN "canceled" ELSE @]

\* the lookup that never finds a session
SessionIndexNone(username) == 0

SessionIndex(username) ==
    IF \E i \in 1..Len(active_rooms) : active_rooms[i].username = username
    THEN Min({i \in 1..Len(active_rooms) : active_rooms[i].username = username})
    ELSE 0

\* socket event join_room, arriving on connection sid
join_room(username, sid) ==
    /\ disconnection_timers' = disconnection_timers \ {username}
    /\ timers' = IF username \in disconnection_timers THEN Cancel(username) ELSE timers
    /\ active_rooms' = IF SessionIndex(username) # 0
                       THEN [active_rooms EXCEPT ![SessionIndex(username)].sid = sid]
                       ELSE Append(active_rooms, [sid |-> sid, username |-> username])
    /\ UNCHANGED <<room, active_turn_timers, old_timers, in_flight>>

\* socket event reconnect_to_game
reconnect_to_game(username) ==
    /\ disconnection_timers' = disconnection_timers \ {username}
    /\ timers' = IF username \in disconnection_timers THEN Cancel(username) ELSE timers
    /\ UNCHANGED <<room, active_rooms, active_turn_timers, old_timers, in_flight>>

\* the states of a timer that has not finished: waiting, or inside remove_player before
\* and after its store write
Unfinished == {"armed", "running", "written"}

\* socket event disconnect of connection sid: the first session with that sid leaves the
\* registry, the timer under the user's key (if there is a key) is canceled, and a new
\* timer is armed and put under the key; the timer it replaces goes on if unfinished
disconnect(sid) ==
    LET found == {i \in 1..Len(active_rooms) : active_rooms[i].sid = sid}
    IN /\ found # {}
       /\ LET client == active_rooms[Min(found)]
              left == IF client.username \in disconnection_timers THEN Cancel(client.username) ELSE timers
          IN /\ active_rooms' = SubSeq(active_rooms, 1, Min(found) - 1) \o SubSeq(active_rooms, Min(found) + 1, Len(active_rooms))
             /\ disconnection_timers' = disconnection_timers \cup {client.username}
             /\ timers' = [timers EXCEPT ![client.username] = "armed"]
             /\ old_timers' = IF left[client.username] \in Unfinished
                              THEN Append(old_timers, [username |-> client.username, state |-> left[client.username]])
                              ELSE old_timers
       /\ UNCHANGED <<room, active_turn_timers, in_flight>>

\* the room document remove_player builds for a room that has not ended (lines 345-370)
Purged(db, username) ==
    [db EXCEPT !.players = @ \ {username},
               !.group1 = Del(@, username),
               !.group2 = Del(@, username),
               !.character_health = IF username \in DictKeys(@) THEN DictDel(@, username) ELSE @,
               !.ready_players = @ \ {username},
               !.player_order = ListRemove(@, username)]

\* room_changed of remove_player: the health entry alone does not set it
RoomChanged(db, username) ==
    \/ username \in db.players
    \/ username \in DOMAIN db.group1
    \/ username \in DOMAIN db.group2
    \/ username \in db.ready_players
    \/ username \in Range(db.player_order)

\* the disconnect timer of username fires: handle_disconnect.remove_player
remove_player(username) ==
    /\ timers[username] = "armed"
    /\ room' = IF room.status # "ended" /\ RoomChanged(room, username)
               THEN Purged(room, username) ELSE room
    /\ disconnection_timers' = disconnection_timers \ {username}
    /\ timers' = [timers EXCEPT ![username] = "fired"]
    /\ UNCHANGED <<active_rooms, active_turn_timers, old_timers, in_flight>>

\* ------------------------------------------------------------- gameplay
\* socket event game_started
game_started ==
    LET first == start_first_turn(room)
    IN /\ room' = first.room
       /\ active_turn_timers' = IF first.armed
                                THEN start_turn_timer(first.room.current_player, first.room.next_player)
                                ELSE active_turn_timers
       /\ UNCHANGED <<active_rooms, disconnection_timers, timers, old_timers, in_flight>>

\* socket event make_move
make_move(username, ability_known, target_player, move_type, value) ==
    LET done == on_make_move(room, username, ability_known, target_player, move_type, value)
    IN /\ done.result = "success" => Len(room.chat_log) + 2 <= MaxChat
       /\ room' = done.room
       /\ active_turn_timers' = IF done.rearm THEN done.timer ELSE active_turn_timers
       /\ UNCHANGED <<active_rooms, disconnection_timers, timers, old_timers, in_flight>>

\* socket event skip_turn
skip_turn(username) ==
    LET done == on_skip_turn(room, username)
    IN /\ done.result = "success" => Len(room.chat_log) + 2 <= MaxChat
       /\ room' = done.room
       /\ active_turn_timers' = IF done.rearm THEN done.timer ELSE active_turn_timers
       /\ UNCHANGED <<active_rooms, disconnection_timers, timers, old_timers, in_flight>>

\* ------------------------------------------------------------ the events
\* The clients of the model.  The creator "a" is seated by create_room (Init); the
\* others are seated by join_room_route.  a and b pick a fixed group, c either one.
Creator == "a"

Teams == {<<"a", "group1">>, <<"b", "group2">>, <<"c", "group1">>, <<"c", "group2">>}

\* the users that open socket connections (and so can disconnect and be purged)
SocketUsers == {"c"}

\* make_move requests: every combination with a known ability, and one request per
\* user naming an ability the store does not hold
MoveRequests ==
    [username : Users, ability_known : {TRUE}, target_user : Users, type : MoveTypes, value : Values]
    \cup [username : Users, ability_known : {FALSE}, target_user : {Creator}, type : {"a"}, value : {0}]

\* the lobby screen of the client: the room has not started
InLobby == room.status = "not started"

\* Spec: clients send the lobby events from the lobby screen only; game events, socket
\* connections, disconnects and timer firings arrive at any time.
Next ==
    \/ \E u \in Users \ {Creator} : InLobby /\ join_room_route(u)
    \/ \E u \in Users, g \in Groups, c \in CharNames : InLobby /\ <<u, g>> \in Teams /\ join_group(u, g, c)
    \/ \E u \in Users : InLobby /\ press_ready(u)
    \/ \E u \in Users : InLobby /\ unpress_ready(u)
    \/ \E u \in SocketUsers, sid \in SIDs : join_room(u, sid)
    \/ \E u \in Users : reconnect_to_game(u)
    \/ \E sid \in SIDs : disconnect(sid)
    \/ \E u \in Users : remove_player(u)
    \/ game_started
    \/ \E r \in MoveRequests : make_move(r.username, r.ability_known, r.target_user, r.type, r.value)
    \/ \E u \in Users : skip_turn(u)

Spec == Init /\ [][Next]_vars

\* SpecRestart: press_ready arrives at any time, also during and after a match; no
\* socket connections.
NextRestart ==
    \/ \E u \in Users \ {Creator} : InLobby /\ join_room_route(u)
    \/ \E u \in Users, g \in Groups, c \in CharNames : InLobby /\ <<u, g>> \in Teams /\ join_group(u, g, c)
    \/ \E u \in Users : press_ready(u)
    \/ \E u \in Users : InLobby /\ unpress_ready(u)
    \/ game_started
    \/ \E r \in MoveRequests : make_move(r.username, r.ability_known, r.target_user, r.type, r.value)
    \/ \E u \in Users : skip_turn(u)

SpecRestart == Init /\ [][NextRestart]_vars

\* ------------------------------------------------------------ properties
Health == decrypt_from_database(room.character_health)

\* C1: while the persisted status is started, player_order is non-empty and the current
\* player (the cached one, or the computed one when none is cached) is in player_order.
C1_CurrentPlayerInOrder ==
    room.status = "started" =>
        /\ room.player_order # <<>>
        /\ CurrentPlayerOf(room) \in Range(room.player_order)

\* C2: while the status is started, no username in player_order has health <= 0.
C2_NoDefeatedInOrder ==
    room.status = "started" =>
        \A p \in Range(room.player_order) : ~(p \in DOMAIN Health /\ Health[p] <= 0)

\* C3: the status only moves forward, not started -> started -> ended: no step takes a
\* started room back to not started, or an ended room to any other status.
C3_StatusForward ==
    [][/\ room.status = "started" => room'.status \in {"started", "ended"}
       /\ room.status = "ended" => room'.status = "ended"]_vars

\* the answers of the two turn handlers to request r in the current state
MoveOf(r) == on_make_move(room, r.username, r.ability_known, r.target_user, r.type, r.value)

SkipOf(u) == on_skip_turn(room, u)

Stores(done) == done.room # room \/ done.rearm

\* C4 as stated: a make_move or skip_turn request changes the room only when its
\* username is the current player (cached, or player_order[turn mod len] when none is
\* cached), and a request of any other username is answered 'Not your turn'.
C4_OthersGetNotYourTurn ==
    room.status = "started" =>
        LET current == IF room.current_player # NoKey THEN room.current_player
                       ELSE IF room.player_order # <<>>
                            THEN At0(room.player_order, room.turn % Len(room.player_order))
                            ELSE NoKey
        IN \A r \in MoveRequests :
              /\ Stores(MoveOf(r)) \/ Stores(SkipOf(r.username)) => r.username = current
              /\ r.username # current =>
                    /\ MoveOf(r).result = "Not your turn"
                    /\ SkipOf(r.username).result = "Not your turn"

\* C4: in every state, a make_move or skip_turn request of a username other than the
\* current player is answered 'Not your turn' when player_order is non-empty, and every
\* request is answered 'No players in game order' when player_order is empty; in both
\* cases nothing is stored.  So a request stores something only when player_order is
\* non-empty and its username is the current player.
C4_TurnExclusive ==
    \A r \in MoveRequests :
        LET mv == MoveOf(r)
            sk == SkipOf(r.username)
        IN /\ room.player_order # <<>> /\ r.username # CurrentPlayerOf(room) =>
                 /\ mv.result = "Not your turn" /\ ~Stores(mv)
                 /\ sk.result = "Not your turn" /\ ~Stores(sk)
           /\ room.player_order = <<>> =>
                 /\ mv.result = "No players in game order" /\ ~Stores(mv)
                 /\ sk.result = "No players in game order" /\ ~Stores(sk)

\* a started match after an accepted move, where one user is refused and the current
\* player is not
C4_Witness ==
    /\ room.status = "started"
    /\ room.turn > FirstTurn
    /\ room.player_order # <<>>
    /\ \E u \in Users : /\ u # CurrentPlayerOf(room)
                        /\ SkipOf(u).result = "Not your turn"
    /\ \E u \in Users : u = CurrentPlayerOf(room) /\ Stores(SkipOf(u))

Other(g) == IF g = "group1" THEN "group2" ELSE "group1"

HealthOf(rd) == decrypt_from_database(rd.character_health)

\* group g of document rd has members and each of them is at health 0
Defeated(rd, g) ==
    /\ DOMAIN rd[g] # {}
    /\ \A p \in DOMAIN rd[g] : p \in DOMAIN HealthOf(rd) /\ HealthOf(rd)[p] = 0

\* group g of document rd has a member with health above 0
Standing(rd, g) ==
    \E p \in DOMAIN rd[g] : p \in DOMAIN HealthOf(rd) /\ HealthOf(rd)[p] > 0

WinDetected(rd) ==
    \A g \in Groups :
        Defeated(rd, g) /\ Standing(rd, Other(g)) =>
            rd.status = "ended" /\ rd.winner = Other(g)

\* the step appends the chat entry of an accepted make_move
MoveAccepted ==
    /\ Len(room'.chat_log) > Len(room.chat_log)
    /\ room'.chat_log[Len(room.chat_log) + 1].data.kind = "move"

\* the step appends the chat entry of an accepted skip_turn
SkipAccepted ==
    /\ Len(room'.chat_log) > Len(room.chat_log)
    /\ room'.chat_log[Len(room.chat_log) + 1].data.kind = "skip"

\* C5 as stated: after an accepted make_move or skip_turn, if every member of one group
\* is at health 0 and the other group has a member above 0, the match has ended and the
\* winner is the other group.
C5_WinAfterMoveOrSkip ==
    [][MoveAccepted \/ SkipAccepted => WinDetected(room')]_vars

\* C5: after an accepted make_move, if every member of one group is at health 0 and
\* the other group has a member above 0, the match has ended and the winner is the
\* other group.
C5_WinAfterMove ==
    [][MoveAccepted => WinDetected(room')]_vars

\* a match that a move has just ended: the last two chat entries are the move and the
\* end of the same turn, one group is defeated and the other one is the winner
C5_Witness ==
    /\ room.status = "ended"
    /\ Len(room.chat_log) >= 2
    /\ room.chat_log[Len(room.chat_log)].data.kind = "end"
    /\ room.chat_log[Len(room.chat_log) - 1].data.kind = "move"
    /\ \E g \in Groups : Defeated(room, g) /\ Standing(room, Other(g)) /\ room.winner = Other(g)

\* C6: every value of character_health is an integer from 0 to 50.
C6_HealthInRange ==
    \A u \in DOMAIN Health : Health[u] \in 0..MaxHealth

\* a state in which the current player's attack of 50 on a target at 25 is accepted and
\* leaves the target at 0, next to a player at 50
C6_Witness ==
    /\ room.player_order # <<>>
    /\ \E u \in DOMAIN Health, v \in DOMAIN Health :
          /\ Health[u] = 25
          /\ Health[v] = MaxHealth
          /\ LET mv == on_make_move(room, CurrentPlayerOf(room), TRUE, u, "a", 50)
             IN mv.result = "success" /\ HealthOf(mv.room)[u] = 0

PressReadyStep == \E u \in Users : press_ready(u)

JoinGroupStep == \E u \in Users, g \in Groups, c \in CharNames : join_group(u, g, c)

\* the start conditions as the claim lists them
StartConditions(rd) ==
    /\ Cardinality(rd.players) >= 2
    /\ DOMAIN rd.group1 # {}
    /\ DOMAIN rd.group2 # {}
    /\ rd.ready_players = rd.players

\* C7 as stated: a room that has not started becomes started exactly in the press_ready
\* and join_group steps after which there are at least 2 players, a member in each group
\* and ready_players set-equal to players.
C7_StartsOnReadyOrGroupChange ==
    [][room.status = "not started" =>
          /\ room'.status = "started" =>
                (PressReadyStep \/ JoinGroupStep) /\ StartConditions(room')
          /\ (PressReadyStep \/ JoinGroupStep) /\ StartConditions(room') =>
                room'.status = "started"]_vars

\* C7: a room that has not started becomes started exactly in the press_ready steps
\* after which there are at least 2 players, a member in each group and ready_players
\* set-equal to players; a join_group step never changes the status.
C7_StartsOnReady ==
    [][room.status = "not started" =>
          /\ room'.status = "started" => PressReadyStep /\ StartConditions(room')
          /\ PressReadyStep /\ StartConditions(room') => room'.status = "started"
          /\ JoinGroupStep => room'.status = "not started"]_vars

\* the match has just started: the conditions hold and no turn has been set up
C7_Witness ==
    /\ room.status = "started"
    /\ StartConditions(room)
    /\ room.turn = FirstTurn
    /\ room.current_player = NoKey
    /\ room.chat_log = <<>>

\* C8: in the step that starts the match, player_order becomes a permutation of
\* players: as long as players and holding each of them.
C8_OrderIsPermutation ==
    [][room.status # "started" /\ room'.status = "started" =>
          /\ Len(room'.player_order) = Cardinality(room'.players)
          /\ Range(room'.player_order) = room'.players]_vars

\* a started match of three players whose order has not been touched yet
C8_Witness ==
    /\ room.status = "started"
    /\ room.players = Users
    /\ Len(room.player_order) = 3
    /\ Range(room.player_order) = Users
    /\ room.turn = FirstTurn
    /\ room.chat_log = <<>>

\* C9 as stated: after the disconnect timer of a username fires on a room that has not
\* ended, the username is in none of players, group1, group2, ready_players,
\* character_health and player_order; and no step advances the turn of a room whose
\* player_order is empty.
C9_PurgeRemovesEverywhere ==
    [][/\ \A u \in Users :
             remove_player(u) /\ room.status # "ended" =>
                 /\ u \notin room'.players
                 /\ u \notin DOMAIN room'.group1
                 /\ u \notin DOMAIN room'.group2
                 /\ u \notin room'.ready_players
                 /\ u \notin DOMAIN HealthOf(room')
                 /\ u \notin Range(room'.player_order)
       /\ room.player_order = <<>> => room'.turn = room.turn]_vars

NextRegistry ==
    \/ \E u \in Users \ {Creator} : InLobby /\ join_room_route(u)
    \/ \E u \in Users, sid \in SIDs : join_room(u, sid)
    \/ \E u \in Users : reconnect_to_game(u)
    \/ \E sid \in SIDs : disconnect(sid)
    \/ \E u \in Users : remove_player(u)

SpecRegistry == Init /\ [][NextRegistry]_vars

\* the positions of the sessions of username in registry reg
SessionsOf(reg, username) == {i \in 1..Len(reg) : reg[i].username = username}

\* C11: no step leaves a username with two sessions in the registry, and a join_room of a
\* username that has a session replaces the connection id of that session and nothing
\* else in the registry: same length, same order, every other session as it was.
C11_JoinIdempotent ==
    [][/\ \A u \in Users : Cardinality(SessionsOf(active_rooms', u)) <= 1
       /\ \A u \in Users, sid \in SIDs :
             join_room(u, sid) /\ SessionsOf(active_rooms, u) # {} =>
                 /\ Len(active_rooms') = Len(active_rooms)
                 /\ Cardinality(SessionsOf(active_rooms', u)) = 1
                 /\ \A i \in 1..Len(active_rooms) :
                       active_rooms'[i] = IF active_rooms[i].username = u
                                          THEN [sid |-> sid, username |-> u]
                                          ELSE active_rooms[i]]_vars

\* all three users have a session, on both connection ids: every join is a second join
C11_Witness ==
    /\ Len(active_rooms) = 3
    /\ \A u \in Users : Cardinality(SessionsOf(active_rooms, u)) = 1
    /\ {active_rooms[i].sid : i \in 1..3} = SIDs

\* C12: after every step no username is a key of both group1 and group2, and a
\* join_group step that changes a group leaves the username in the requested group,
\* with the requested character, and out of the other group.
C12_OneGroupPerUser ==
    [][/\ (DOMAIN room'.group1) \cap (DOMAIN room'.group2) = {}
       /\ \A u \in Users, g \in Groups, c \in CharNames :
             /\ room'.group1 # room.group1 \/ room'.group2 # room.group2
             /\ join_group(u, g, c)
             => /\ u \in DOMAIN room'[g]
                 /\ room'[g][u] = c
                 /\ u \notin DOMAIN room'[Other(g)]]_vars

\* a lobby in which c sits in group2 next to b while a sits in group1
C12_Witness ==
    /\ room.status = "not started"
    /\ DOMAIN room.group1 = {"a"}
    /\ DOMAIN room.group2 = {"b", "c"}

\* ------------------------------------------------------------- effects
\* What a handler does besides answering its caller, in program order: store writes
\* (with the status they persist), the turn-timer record it sets, and one emit per
\* session of the registry.
WriteOp(doc) == <<[op |-> "write", event |-> NoKey, to |-> NoKey, status |-> doc.status]>>

TimerOp == <<[op |-> "timer", event |-> NoKey, to |-> NoKey, status |-> NoKey]>>

\* the broadcast loop over active_rooms[room_code]
Emit(event, sessions) ==
    [i \in 1..Len(sessions) |-> [op |-> "emit", event |-> event, to |-> sessions[i].username, status |-> NoKey]]

start_turn_timer_trace(sessions) == TimerOp \o Emit("turn_started", sessions)

\* the tail of on_make_move / on_skip_turn (lines 434-501, 619-677): at game over the
\* game_ended broadcast and then the write; otherwise the handler's write, the write of
\* next_turn when it advances, the broadcast and the timer
TurnTrace(done, sessions, event) ==
    IF done.result # "success" THEN <<>>
    ELSE IF ~done.rearm THEN Emit("game_ended", sessions) \o WriteOp(done.room)
    ELSE WriteOp(done.room)
         \o (IF done.timer.current_player # NoKey THEN WriteOp(done.room) ELSE <<>>)
         \o Emit(event, sessions)
         \o start_turn_timer_trace(sessions)

make_move_trace(db, sessions, username, ability_known, target_player, move_type, value) ==
    TurnTrace(on_make_move(db, username, ability_known, target_player, move_type, value), sessions, "move_made")

skip_turn_trace(db, sessions, username) ==
    TurnTrace(on_skip_turn(db, username), sessions, "skip_made")

\* make_move requests that lack a required field (here the type)
IncompleteRequests ==
    [username : Users, ability_known : {TRUE}, target_user : Users, type : {NoKey}, value : {0}]

\* C13: in every state, a make_move or skip_turn request that is not accepted (a missing
\* field, an empty player_order, not the caller's turn, an unknown ability, a target in
\* neither group, the handler's own error) leaves the room document and the turn-timer
\* record as they are and emits nothing to any session.
C13_RejectionHasNoEffect ==
    [](/\ \A r \in MoveRequests \cup IncompleteRequests :
             LET mv == MoveOf(r)
             IN mv.result # "success" =>
                    /\ mv.room = room
                    /\ ~mv.rearm
                    /\ make_move_trace(room, active_rooms, r.username, r.ability_known,
                                       r.target_user, r.type, r.value) = <<>>
       /\ \A u \in Users :
             LET sk == SkipOf(u)
             IN sk.result # "success" =>
                    /\ sk.room = room
                    /\ ~sk.rearm
                    /\ skip_turn_trace(room, active_rooms, u) = <<>>)

\* a started match with a session in the registry where the current player's requests
\* are refused for a missing field, an unknown ability and an unknown target, another
\* user's request for the turn, and an accepted request would reach the session
C13_Witness ==
    /\ room.status = "started"
    /\ active_rooms # <<>>
    /\ room.player_order # <<>>
    /\ LET cur == CurrentPlayerOf(room)
       IN /\ cur \in Users
          /\ on_make_move(room, cur, TRUE, "a", NoKey, 0).result = "Missing required fields"
          /\ on_make_move(room, cur, FALSE, "a", "a", 0).result = "Ability not found"
          /\ \E t \in Users : on_make_move(room, cur, TRUE, t, "a", 25).result = "Target not found"
          /\ \E u \in Users : on_skip_turn(room, u).result = "Not your turn"
          /\ skip_turn_trace(room, active_rooms, cur) # <<>>

\* ------------------------------------------------- find_next_active_player alone
\* every player_order without repeats
Orders == UNION {Shuffles(S) : S \in SUBSET Users}

\* SpecFind: a started room with any player_order, stored health and current player, on
\* which find_next_active_player is called once and its result kept as next_player.
InitFind ==
    /\ \E order \in Orders, health \in [Users -> Values], cur \in Users :
          room = [ players |-> Users,
                   group1 |-> EmptyDict,
                   group2 |-> EmptyDict,
                   ready_players |-> {},
                   character_health |-> encrypt_for_database(health),
                   chat_log |-> <<>>,
                   status |-> "started",
                   turn |-> FirstTurn,
                   player_order |-> order,
                   current_player |-> cur,
                   next_player |-> NoKey,
                   winner |-> NoKey ]
    /\ active_rooms = <<>>
    /\ active_turn_timers = NoKey
    /\ disconnection_timers = {}
    /\ timers = [u \in Users |-> "none"]
    /\ old_timers = <<>>
    /\ in_flight = NoneInFlight

find_next ==
    /\ room.next_player = NoKey
    /\ room' = [room EXCEPT !.next_player =
                   find_next_active_player(room, room.current_player, room.player_order)]
    /\ UNCHANGED <<active_rooms, active_turn_timers, disconnection_timers, timers, old_timers, in_flight>>

SpecFind == InitFind /\ [][find_next]_vars

\* the usernames of player_order other than cur whose stored health is above 0
AliveOthers(rd, cur) ==
    {p \in Range(rd.player_order) : p # cur /\ p \in DOMAIN HealthOf(rd) /\ HealthOf(rd)[p] > 0}

\* how many places after cur's position p stands, cyclically
PlacesAfter(rd, cur, p) ==
    (IndexOf(rd.player_order, p) - IndexOf(rd.player_order, cur)) % Len(rd.player_order)

\* C14: when player_order holds a username other than the current player with stored
\* health above 0, find_next_active_player returns no username with stored health <= 0:
\* it returns such a username, the first one after the current player's position.
C14_NextIsFirstAlive ==
    room.next_player # NoKey /\ AliveOthers(room, room.current_player) # {} =>
        /\ ~(room.next_player \in DOMAIN Health /\ Health[room.next_player] <= 0)
        /\ room.next_player \in AliveOthers(room, room.current_player)
        /\ room.current_player \in Range(room.player_order) =>
              \A p \in AliveOthers(room, room.current_player) :
                  PlacesAfter(room, room.current_player, room.next_player)
                      <= PlacesAfter(room, room.current_player, p)

\* C15: the turn number never decreases, and every accepted make_move or skip_turn that
\* leaves the match going raises it by exactly 1.
C15_TurnCountsAcceptedTurns ==
    [][/\ room'.turn >= room.turn
       /\ (MoveAccepted \/ SkipAccepted) /\ room'.status # "ended" =>
              room'.turn = room.turn + 1]_vars

\* ------------------------------------------- the disconnect timer, step by step
\* remove_player runs on the timer's own thread, next to the socket handlers: the end of
\* the 10 s wait, the store write and the deletion of the key are steps of their own.
MaxOld == 2

\* the wait of username's latest timer ends uncanceled: remove_player begins
timer_expires(username) ==
    /\ timers[username] = "armed"
    /\ timers' = [timers EXCEPT ![username] = "running"]
    /\ UNCHANGED <<room, active_rooms, active_turn_timers, disconnection_timers, old_timers, in_flight>>

\* remove_player, lines 325-391: the purge and its store write
remove_player_store(username) ==
    /\ timers[username] = "running"
    /\ room' = IF room.status # "ended" /\ RoomChanged(room, username)
               THEN Purged(room, username) ELSE room
    /\ timers' = [timers EXCEPT ![username] = "written"]
    /\ UNCHANGED <<active_rooms, active_turn_timers, disconnection_timers, old_timers, in_flight>>

\* remove_player, lines 393-395: the key of the user is deleted, whichever timer it holds
remove_player_cleanup(username) ==
    /\ timers[username] = "written"
    /\ disconnection_timers' = disconnection_timers \ {username}
    /\ timers' = [timers EXCEPT ![username] = "fired"]
    /\ UNCHANGED <<room, active_rooms, active_turn_timers, old_timers, in_flight>>

\* the same three steps of a replaced timer
old_timer_expires(i) ==
    /\ i \in DOMAIN old_timers
    /\ old_timers[i].state = "armed"
    /\ old_timers' = [old_timers EXCEPT ![i].state = "running"]
    /\ UNCHANGED <<room, active_rooms, active_turn_timers, disconnection_timers, timers, in_flight>>

old_remove_player_store(i) ==
    /\ i \in DOMAIN old_timers
    /\ old_timers[i].state = "running"
    /\ room' = IF room.status # "ended" /\ RoomChanged(room, old_timers[i].username)
               THEN Purged(room, old_timers[i].username) ELSE room
    /\ old_timers' = [old_timers EXCEPT ![i].state = "written"]
    /\ UNCHANGED <<active_rooms, active_turn_timers, disconnection_timers, timers, in_flight>>

old_remove_player_cleanup(i) ==
    /\ i \in DOMAIN old_timers
    /\ old_timers[i].state = "written"
    /\ disconnection_timers' = disconnection_timers \ {old_timers[i].username}
    /\ old_timers' = SubSeq(old_timers, 1, i - 1) \o SubSeq(old_timers, i + 1, Len(old_timers))
    /\ UNCHANGED <<room, active_rooms, active_turn_timers, timers, in_flight>>

\* SpecTimers: c joins the room and a group, opens and loses socket connections, and the
\* timers run step by step.
NextTimers ==
    \/ \E u \in SocketUsers : InLobby /\ join_room_route(u)
    \/ \E u \in SocketUsers, g \in Groups, c \in CharNames : <<u, g>> \in Teams /\ join_group(u, g, c)
    \/ \E u \in SocketUsers, sid \in SIDs : join_room(u, sid)
    \/ \E u \in SocketUsers : reconnect_to_game(u)
    \/ \E sid \in SIDs : Len(old_timers) < MaxOld /\ disconnect(sid)
    \/ \E u \in SocketUsers : timer_expires(u)
    \/ \E u \in SocketUsers : remove_player_store(u)
    \/ \E u \in SocketUsers : remove_player_cleanup(u)
    \/ \E i \in 1..MaxOld : old_timer_expires(i)
    \/ \E i \in 1..MaxOld : old_remove_player_store(i)
    \/ \E i \in 1..MaxOld : old_remove_player_cleanup(i)

SpecTimers == Init /\ [][NextTimers]_vars

\* C16: a timer that was canceled never starts remove_player (its state changes only when
\* a disconnect replaces it by a new timer), and a timer that has started remove_player
\* is never canceled: it goes on to its write and its cleanup, also when a join_room, a
\* reconnect_to_game or a disconnect calls cancel on it or replaces it.
C16_CancelOrFireNotBoth ==
    [][\A u \in Users :
          /\ timers[u] = "canceled" /\ timers'[u] # "canceled" =>
                 /\ timers'[u] = "armed"
                 /\ Len(active_rooms') < Len(active_rooms)
                 /\ old_timers' = old_timers
          /\ timers[u] \in {"running", "written"} /\ timers'[u] # timers[u] =>
                 \/ timers[u] = "running" /\ timers'[u] = "written"
                 \/ timers[u] = "written" /\ timers'[u] = "fired"
                 \/ /\ timers'[u] = "armed"
                    /\ old_timers' = Append(old_timers, [username |-> u, state |-> timers[u]])
          /\ \A i \in DOMAIN old_timers' : old_timers'[i].state \in Unfinished]_vars

\* c's latest timer is canceled while an earlier timer of c, already inside remove_player
\* when join_room called cancel on it, has made its store write
C16_Witness ==
    /\ timers["c"] = "canceled"
    /\ \E i \in DOMAIN old_timers : old_timers[i].username = "c" /\ old_timers[i].state = "written"

\* the number of timers of username that are waiting (armed, neither fired nor canceled)
LiveTimers(username) ==
    Cardinality({i \in DOMAIN old_timers : old_timers[i].username = username /\ old_timers[i].state = "armed"})
        + (IF timers[username] = "armed" THEN 1 ELSE 0)

\* C19: in every state each username has at most one waiting disconnect timer, and the
\* room has at most one turn-timer record.
C19_OneLiveTimerPerUser ==
    /\ \A u \in Users : LiveTimers(u) <= 1
    /\ active_turn_timers = NoKey \/ DOMAIN active_turn_timers = {"current_player", "next_player"}

\* --------------------------------------------- effects of the lobby handlers
\* on_press_ready: the write, the player_ready loop, then check_all_ready's write and loop
press_ready_trace(db, sessions, username) ==
    LET room_data == [db EXCEPT !.ready_players = @ \cup {username}]
    IN WriteOp(room_data) \o Emit("player_ready", sessions)
       \o (IF AllReady(room_data)
           THEN WriteOp([room_data EXCEPT !.status = "started"]) \o Emit("game_started", sessions)
           ELSE <<>>)

\* on_join_group: the write, then the group_change loop
join_group_trace(db, sessions) == WriteOp(db) \o Emit("group_change", sessions)

\* handle_disconnect.remove_player: the write, then the player_left loop
remove_player_trace(db, sessions, username) ==
    IF db.status # "ended" /\ RoomChanged(db, username)
    THEN WriteOp(Purged(db, username)) \o Emit("player_left", sessions)
    ELSE <<>>

\* the effect traces of every handler that broadcasts, for every request, in this state
HandlerTraces ==
    {make_move_trace(room, active_rooms, r.username, r.ability_known, r.target_user, r.type, r.value) :
         r \in MoveRequests}
    \cup {skip_turn_trace(room, active_rooms, u) : u \in Users}
    \cup {press_ready_trace(room, active_rooms, u) : u \in Users}
    \cup {remove_player_trace(room, active_rooms, u) : u \in Users}
    \cup {join_group_trace(room, active_rooms)}

StateChanges == {"game_started", "move_made", "skip_made", "game_ended", "group_change", "player_left"}

\* the writes of a trace before position i
WritesBefore(trace, i) == {j \in 1..(i - 1) : trace[j].op = "write"}

\* the status in the store when step i of the trace runs
PersistedStatus(trace, i) ==
    IF WritesBefore(trace, i) = {} THEN room.status
    ELSE trace[CHOOSE j \in WritesBefore(trace, i) : \A k \in WritesBefore(trace, i) : k <= j].status

\* C17: in every handler run, each state-change notification (game_started, move_made,
\* skip_made, game_ended, group_change, player_left) is emitted after a store write of
\* that run, and game_ended is never emitted while the stored status is still started.
C17_EmitsFollowWrites ==
    \A trace \in HandlerTraces :
        \A i \in DOMAIN trace :
            trace[i].op = "emit" /\ trace[i].event \in StateChanges =>
                /\ WritesBefore(trace, i) # {}
                /\ trace[i].event = "game_ended" => PersistedStatus(trace, i) # "started"

\* encrypt_response raises for the recipient faulty (lines 61-64): the exception leaves the
\* broadcast loop and the handler; the steps that ran are those before that emit
WithFault(trace, faulty) ==
    LET failed == {i \in DOMAIN trace : trace[i].op = "emit" /\ trace[i].to = faulty}
    IN IF failed = {} THEN trace
       ELSE SubSeq(trace, 1, (CHOOSE i \in failed : \A k \in failed : i <= k) - 1)

DefeatedNow(t) ==
    /\ t \in DOMAIN HealthOf(room') /\ HealthOf(room')[t] = 0
    /\ t \notin DOMAIN HealthOf(room) \/ HealthOf(room)[t] > 0

\* C20: after an accepted make_move that brings its target's health to 0 while the match
\* goes on, the target is not in player_order and is neither the current nor the next
\* player.
C20_DefeatedTargetLeavesTurns ==
    [][MoveAccepted /\ room.status = "started" /\ room'.status = "started" =>
          \A t \in Users :
              DefeatedNow(t) =>
                  /\ t \notin Range(room'.player_order)
                  /\ room'.current_player # t
                  /\ room'.next_player # t]_vars

\* C21: when start_first_turn initialises the first turn (the stored turn is 1), the
\* current player it stores is player_order[0] and the next player is the first living
\* player after it in player_order.
C21_FirstTurnStartsAtHead ==
    [][game_started /\ room.turn = FirstTurn /\ start_first_turn(room).armed =>
          /\ room'.current_player = At0(room.player_order, 0)
          /\ AliveOthers(room', room'.current_player) # {} =>
                 /\ room'.next_player \in AliveOthers(room', room'.current_player)
                 /\ \A p \in AliveOthers(room', room'.current_player) :
                        PlacesAfter(room', room'.current_player, room'.next_player)
                            <= PlacesAfter(room', room'.current_player, p)]_vars

\* C22: next_turn on a started room with a non-empty player_order stores turn + 1, makes
\* the cached next_player the current player and stores as next_player what
\* find_next_active_player finds after it; on a room that is not started it changes
\* nothing and returns no players.
C22_NextTurnAdvances ==
    LET advanced == next_turn(room)
    IN /\ room.status # "started" =>
              /\ advanced.room = room
              /\ advanced.current_player = NoKey
              /\ advanced.next_player = NoKey
       /\ room.status = "started" /\ room.player_order # <<>> =>
              /\ advanced.room.turn = room.turn + 1
              /\ room.next_player # NoKey => advanced.room.current_player = room.next_player
              /\ advanced.room.next_player =
                     find_next_active_player(room, advanced.room.current_player, advanced.room.player_order)
              /\ advanced.current_player = advanced.room.current_player
              /\ advanced.next_player = advanced.room.next_player

\* the fields a turn request may change
TurnFields(rd) == <<rd.character_health, rd.chat_log, rd.winner, rd.turn>>

\* C23: while the stored status is not started, every make_move and every skip_turn is
\* rejected and leaves health, chat_log, winner and turn as they are.
C23_NoTurnsUnlessStarted ==
    room.status # "started" =>
        /\ \A r \in MoveRequests :
              /\ MoveOf(r).result # "success"
              /\ TurnFields(MoveOf(r).room) = TurnFields(room)
        /\ \A u \in Users :
              /\ SkipOf(u).result # "success"
              /\ TurnFields(SkipOf(u).room) = TurnFields(room)

\* ------------------------------------------------- the effect of one move
\* the largest value of a request
MaxValue == 55

\* SpecEffect: a started match of a (group1) against b and c (group2) in which it is a's
\* turn; b's stored health is any h in 0..MaxHealth and c has no health entry.  a sends
\* one make_move with any type and any value up to MaxValue on b or on c.
InitEffect ==
    /\ \E h \in 0..MaxHealth :
          room = [ players |-> {"a", "b"},
                   group1 |-> Put(EmptyDict, "a", "Kara"),
                   group2 |-> Put(Put(EmptyDict, "b", "Kara"), "c", "Kara"),
                   ready_players |-> {"a", "b"},
                   character_health |-> encrypt_for_database(Put(Put(EmptyDict, "a", StartHealth), "b", h)),
                   chat_log |-> <<>>,
                   status |-> "started",
                   turn |-> FirstTurn,
                   player_order |-> IF h > 0 THEN <<"b", "a">> ELSE <<"a">>,
                   current_player |-> "a",
                   next_player |-> IF h > 0 THEN "b" ELSE NoPlayer,
                   winner |-> NoKey ]
    /\ active_rooms = <<>>
    /\ active_turn_timers = start_turn_timer("a", room.next_player)
    /\ disconnection_timers = {}
    /\ timers = [u \in Users |-> "none"]
    /\ old_timers = <<>>
    /\ in_flight = NoneInFlight

first_move(target_player, move_type, value) ==
    /\ room.chat_log = <<>>
    /\ make_move("a", TRUE, target_player, move_type, value)

NextEffect ==
    \E target_player \in {"b", "c"}, move_type \in MoveTypes, value \in 0..MaxValue :
        first_move(target_player, move_type, value)

SpecEffect == InitEffect /\ [][NextEffect]_vars

\* the claimed result, written without max and min
ReferenceHealth(move_type, h, v) ==
    IF move_type = "a" THEN (IF v >= h THEN 0 ELSE h - v)
    ELSE (IF h + v >= 50 THEN 50 ELSE h + v)

\* C24: an accepted make_move of value v on a target with health h (50 when the target has
\* no entry) stores max(0, h - v) for an attack and min(50, h + v) for a heal.
C24_EffectMatchesReference ==
    [][\A target_player \in {"b", "c"}, move_type \in MoveTypes, value \in 0..MaxValue :
          first_move(target_player, move_type, value) /\ MoveAccepted =>
              /\ target_player \in DOMAIN HealthOf(room')
              /\ HealthOf(room')[target_player] =
                     ReferenceHealth(move_type,
                                     IF target_player \in DOMAIN Health THEN Health[target_player] ELSE 50,
                                     value)
              /\ \A p \in DOMAIN Health \ {target_player} :
                     p \in DOMAIN HealthOf(room') /\ HealthOf(room')[p] = Health[p]]_vars

\* c, who had no health entry, stands at 43 after the first move: an attack of 7 from the
\* default 50
C24_Witness ==
    /\ room.chat_log # <<>>
    /\ "c" \in DOMAIN Health
    /\ Health["c"] = 43

\* ------------------------------------------------------- a match to its round limit
\* the longest chat_log of SpecRounds
MaxChatLong == 47

\* socket event make_move, accepted, in a long match
long_make_move(username, target_player, move_type, value) ==
    LET done == on_make_move(room, username, TRUE, target_player, move_type, value)
    IN /\ done.result = "success"
       /\ Len(room.chat_log) + 2 <= MaxChatLong
       /\ room' = done.room
       /\ active_turn_timers' = IF done.rearm THEN done.timer ELSE active_turn_timers
       /\ UNCHANGED <<active_rooms, disconnection_timers, timers, old_timers, in_flight>>

\* socket event skip_turn, accepted, in a long match
long_skip_turn(username) ==
    LET done == on_skip_turn(room, username)
    IN /\ done.result = "success"
       /\ Len(room.chat_log) + 2 <= MaxChatLong
       /\ room' = done.room
       /\ active_turn_timers' = IF done.rearm THEN done.timer ELSE active_turn_timers
       /\ UNCHANGED <<active_rooms, disconnection_timers, timers, old_timers, in_flight>>

\* the turns at which the players of SpecRounds use every move: the last turn before a
\* multiple of RoundsPerEntry and the multiple itself
LateTurn(turn) == turn % RoundsPerEntry \in {RoundsPerEntry - 1, 0}

\* SpecRounds: a plays b, with or without c's character in a group; while the match is
\* started the player to move heals itself by 0, uses any move at the late turns, and
\* skips around the round limit of skip_turn.
NextRounds ==
    \/ InLobby /\ join_room_route("b")
    \/ \E u \in Users, g \in Groups, c \in CharNames : InLobby /\ <<u, g>> \in Teams /\ join_group(u, g, c)
    \/ \E u \in {"a", "b"} : InLobby /\ press_ready(u)
    \/ room.turn = FirstTurn /\ game_started
    \/ \E u \in {"a", "b"} : room.status = "started" /\ long_make_move(u, u, "h", 0)
    \/ \E u \in {"a", "b"}, t \in Users, mt \in MoveTypes, v \in Values :
          room.status = "started" /\ LateTurn(room.turn) /\ long_make_move(u, t, mt, v)
    \/ \E u \in {"a", "b"} :
          room.status = "started" /\ room.turn \in {SkipRoundLimit - 1, SkipRoundLimit} /\ long_skip_turn(u)

SpecRounds == Init /\ [][NextRounds]_vars

\* every member of group g of document rd that has a health entry is at health 0 or below
FullyDead(rd, g) ==
    \A p \in DOMAIN rd[g] : p \in DOMAIN HealthOf(rd) => HealthOf(rd)[p] <= 0

\* the sum of the stored health of the members of group g of document rd
GroupHealth(rd, g) == SumHealth(HealthOf(rd), (DOMAIN rd[g]) \cap (DOMAIN HealthOf(rd)))

\* the group with the strictly larger sum of health, or tie
LargerSum(rd) ==
    IF GroupHealth(rd, "group1") > GroupHealth(rd, "group2") THEN "group1"
    ELSE IF GroupHealth(rd, "group2") > GroupHealth(rd, "group1") THEN "group2"
    ELSE "tie"

\* the round limit of the claims: turn against 15 for each health entry of document rd
AtRoundLimit(turn, rd) == turn >= 15 * Cardinality(DOMAIN HealthOf(rd))

\* C25: an accepted make_move on a started match that leaves neither group fully dead
\* ends the match when turn >= 15 x (number of health entries), with the group of the
\* strictly larger health sum as winner, or tie; below that limit the match goes on.
C25_MoveRoundLimit ==
    [][MoveAccepted /\ room.status = "started"
           /\ ~FullyDead(room', "group1") /\ ~FullyDead(room', "group2") =>
          IF AtRoundLimit(room.turn, room')
          THEN room'.status = "ended" /\ room'.winner = LargerSum(room')
          ELSE room'.status = "started" /\ room'.winner = NoKey]_vars

\* a match of three health entries ended at turn 45 by the round limit, group2 winning
\* on health while group1 has a living member
C25_Witness ==
    /\ room.status = "ended"
    /\ room.turn = 3 * RoundsPerEntry
    /\ Cardinality(DOMAIN Health) = 3
    /\ room.winner = "group2"
    /\ ~FullyDead(room, "group1")
    /\ ~FullyDead(room, "group2")

\* C26: an accepted skip_turn changes no health value; it ends the match exactly when
\* turn >= 15 x (number of health entries), the winner being the group with the larger
\* health sum, or tie; otherwise it advances the turn.
C26_SkipRoundLimit ==
    [][SkipAccepted /\ room.status = "started" =>
          /\ HealthOf(room') = Health
          /\ IF AtRoundLimit(room.turn, room')
             THEN room'.status = "ended" /\ room'.winner = LargerSum(room')
             ELSE room'.status = "started" /\ room'.turn = room.turn + 1]_vars

\* the effect traces of every make_move and skip_turn request in this state
TurnTraces ==
    {make_move_trace(room, active_rooms, r.username, r.ability_known, r.target_user, r.type, r.value) :
         r \in MoveRequests}
    \cup {skip_turn_trace(room, active_rooms, u) : u \in Users}

\* C27: once the stored status is ended, no make_move and no skip_turn emits game_ended.
C27_GameEndedOnce ==
    room.status = "ended" =>
        \A trace \in TurnTraces :
            \A i \in DOMAIN trace : ~(trace[i].op = "emit" /\ trace[i].event = "game_ended")

\* C28: once the match has started, a step changes player_order only by taking
\* usernames out: what remains keeps its order and nothing is added.
C28_OrderOnlyShrinks ==
    [][room.status # "not started" /\ room'.player_order # room.player_order =>
          \E gone \in SUBSET Range(room.player_order) :
              room'.player_order = SelectSeq(room.player_order, LAMBDA p : p \notin gone)]_vars

remove_player_fails(username) ==
    /\ timers[username] = "running"
    /\ timers' = [timers EXCEPT ![username] = "fired"]
    /\ UNCHANGED <<room, active_rooms, active_turn_timers, disconnection_timers, old_timers, in_flight>>

\* the same for a replaced timer
old_remove_player_fails(i) ==
    /\ i \in DOMAIN old_timers
    /\ old_timers[i].state = "running"
    /\ old_timers' = SubSeq(old_timers, 1, i - 1) \o SubSeq(old_timers, i + 1, Len(old_timers))
    /\ UNCHANGED <<room, active_rooms, active_turn_timers, disconnection_timers, timers, in_flight>>

\* SpecStoreErrors: SpecTimers with a store that may fail under remove_player
NextStoreErrors ==
    \/ NextTimers
    \/ \E u \in SocketUsers : remove_player_fails(u)
    \/ \E i \in 1..MaxOld : old_remove_player_fails(i)

SpecStoreErrors == Init /\ [][NextStoreErrors]_vars

\* C30: a timer that has fired does not fire again (its state changes only when a
\* disconnect arms a new timer), and once its action is over disconnection_timers holds
\* no entry for it.
C30_FiredTimerLeavesNoEntry ==
    [][\A u \in Users :
          /\ timers[u] = "fired" => timers'[u] \in {"fired", "armed"}
          /\ timers'[u] = "fired" => u \notin disconnection_timers']_vars

\* ------------------------------------------------------------ reconnection
\* what on_reconnect_to_game sends (lines 781-871): nothing unless the match is started
\* and the user is in a group; then one reconnection_sync, to the session the registry
\* holds for the user, if it holds one
reconnect_to_game_trace(db, sessions, username) ==
    IF db.status # "started" THEN <<>>
    ELSE IF username \notin (DOMAIN db.group1) \cup (DOMAIN db.group2) THEN <<>>
    ELSE IF SessionsOf(sessions, username) = {} THEN <<>>
    ELSE <<[op |-> "emit", event |-> "reconnection_sync", to |-> username, status |-> NoKey]>>

\* C31: after the reconnect_to_game of a disconnected player (no session, disconnect timer
\* pending) of a started match in which the player is in a group, the registry holds a
\* session for the player and a reconnection_sync is sent to it.
C31_ReconnectRestoresSession ==
    [][\A u \in Users :
          /\ reconnect_to_game(u)
          /\ u \in disconnection_timers
          /\ SessionsOf(active_rooms, u) = {}
          /\ room.status = "started"
          /\ u \in (DOMAIN room.group1) \cup (DOMAIN room.group2)
          => /\ SessionsOf(active_rooms', u) # {}
             /\ \E i \in DOMAIN reconnect_to_game_trace(room, active_rooms', u) :
                    reconnect_to_game_trace(room, active_rooms', u)[i].event = "reconnection_sync"]_vars

\* ------------------------------------------------- handlers running side by side
\* A socket handler of a turn event is a read of the room document (room_ref.get), the
\* work on its local room_data, the write (room_ref.set) and then next_turn, itself a
\* read and a write.  Nothing in the code keeps a second handler, or the thread of a
\* disconnect timer, from running between two of these store calls.

\* the room_data an accepted on_make_move hands to room_ref.set at line 465, and game_over
on_make_move_saved(db, target_player, move_type, value) ==
    LET character_health == decrypt_from_database(db.character_health)
        current_turn == db.turn
        current_player == CurrentPlayerOf(db)
        current_health == IF target_player \in DOMAIN character_health
                          THEN character_health[target_player] ELSE StartHealth
        new_health == ApplyEffect(move_type, current_health, value)
        health1 == Put(character_health, target_player, new_health)
        chat1 == Append(db.chat_log, ChatEntry("move", current_turn))
        removed == new_health <= 0 /\ target_player \in Range(db.player_order)
        next1 == IF removed /\ StrContains(db.next_player, target_player)
                 THEN find_next_active_player(db, current_player, db.player_order)
                 ELSE db.next_player
        order1 == IF removed THEN ListRemove(db.player_order, target_player) ELSE db.player_order
        rd == [db EXCEPT !.chat_log = chat1, !.next_player = next1, !.player_order = order1]
        verdict == MoveVerdict(rd, health1, current_turn)
    IN [game_over |-> verdict[1],
        room |-> IF verdict[1]
                 THEN [rd EXCEPT !.chat_log = Append(chat1, ChatEntry("end", current_turn)),
                                 !.status = "ended",
                                 !.winner = verdict[2],
                                 !.character_health = encrypt_for_database(health1)]
                 ELSE [rd EXCEPT !.character_health = encrypt_for_database(health1)]]

\* the room_data an accepted on_skip_turn hands to room_ref.set at line 649, and game_over
on_skip_turn_saved(db) ==
    LET character_health == decrypt_from_database(db.character_health)
        current_turn == db.turn
        chat1 == Append(DecryptChat(db.chat_log), ChatEntry("skip", current_turn))
        game_over == current_turn >= SkipRoundLimit
    IN [game_over |-> game_over,
        room |-> IF game_over
                 THEN [db EXCEPT !.chat_log = Append(chat1, ChatEntry("end", current_turn)),
                                 !.status = "ended",
                                 !.winner = SkipLimitWinner(db, character_health),
                                 !.character_health = encrypt_for_database(character_health)]
                 ELSE [db EXCEPT !.chat_log = chat1,
                                 !.character_health = encrypt_for_database(character_health)]]

\* the turn requests of the overlapping runs: a skip, or a move with a known ability
TurnRequests ==
    [kind : {"move"}, username : Users, target_user : Users, type : MoveTypes, value : Values]
    \cup [kind : {"skip"}, username : Users, target_user : {NoKey}, type : {NoKey}, value : {0}]

\* run k takes request r: the read at line 278 / 529 and the checks; a request that is
\* rejected ends the run there and stores nothing
turn_request_get(k, r) ==
    LET done == IF r.kind = "move"
                THEN on_make_move(room, r.username, TRUE, r.target_user, r.type, r.value)
                ELSE on_skip_turn(room, r.username)
        saved == IF r.kind = "move"
                 THEN on_make_move_saved(room, r.target_user, r.type, r.value)
                 ELSE on_skip_turn_saved(room)
    IN /\ in_flight[k].pc = "idle"
       /\ done.result = "success"
       /\ in_flight' = [in_flight EXCEPT ![k] = [pc |-> "read", kind |-> r.kind, username |-> r.username,
                                                 turn |-> room.turn, game_over |-> saved.game_over,
                                                 room_data |-> saved.room]]
       /\ UNCHANGED <<room, active_rooms, active_turn_timers, disconnection_timers, timers, old_timers>>

\* run k writes its room_data (line 465 / 649); at game over the handler is through
turn_request_set(k) ==
    /\ in_flight[k].pc = "read"
    /\ room' = in_flight[k].room_data
    /\ in_flight' = [in_flight EXCEPT ![k].pc = IF in_flight[k].game_over THEN "done" ELSE "saved"]
    /\ UNCHANGED <<active_rooms, active_turn_timers, disconnection_timers, timers, old_timers>>

\* run k enters next_turn: its read (line 129) and its work; when next_turn returns
\* (None, None) nothing is written and the handler arms the turn timer with that pair
next_turn_get(k) ==
    LET advanced == next_turn(room)
    IN /\ in_flight[k].pc = "saved"
       /\ IF advanced.current_player = NoKey
          THEN /\ in_flight' = [in_flight EXCEPT ![k].pc = "done"]
               /\ active_turn_timers' = start_turn_timer(NoKey, NoKey)
          ELSE /\ in_flight' = [in_flight EXCEPT ![k].pc = "advancing", ![k].room_data = advanced.room]
               /\ active_turn_timers' = active_turn_timers
       /\ UNCHANGED <<room, active_rooms, disconnection_timers, timers, old_timers>>

\* run k leaves next_turn: its write (line 191), then the handler arms the turn timer
next_turn_set(k) ==
    /\ in_flight[k].pc = "advancing"
    /\ room' = in_flight[k].room_data
    /\ active_turn_timers' = start_turn_timer(in_flight[k].room_data.current_player,
                                              in_flight[k].room_data.next_player)
    /\ in_flight' = [in_flight EXCEPT ![k].pc = "done"]
    /\ UNCHANGED <<active_rooms, disconnection_timers, timers, old_timers>>

SocketRuns == {"h1", "h2"}

\* SpecRace: a and b set up a match; then two handler runs take one turn request each
\* and go through their store calls in any order.
NextRace ==
    \/ InLobby /\ join_room_route("b")
    \/ \E u \in {"a", "b"}, g \in Groups, c \in CharNames : InLobby /\ <<u, g>> \in Teams /\ join_group(u, g, c)
    \/ \E u \in {"a", "b"} : InLobby /\ press_ready(u)
    \/ room.turn = FirstTurn /\ room.current_player = NoKey /\ game_started
    \/ \E k \in SocketRuns, r \in TurnRequests : room.status = "started" /\ turn_request_get(k, r)
    \/ \E k \in SocketRuns : turn_request_set(k)
    \/ \E k \in SocketRuns : next_turn_get(k)
    \/ \E k \in SocketRuns : next_turn_set(k)

SpecRace == Init /\ [][NextRace]_vars

\* the chat entries of moves and skips that carry turn number t
EffectsOfTurn(chat_log, t) ==
    {i \in 1..Len(chat_log) : chat_log[i].data.kind \in {"move", "skip"} /\ chat_log[i].data.turn = t}

\* C32: of two make_move / skip_turn runs of the same username for the same turn at most
\* one gets past the checks; and when two runs for the same turn are through and the
\* match goes on, the turn stands exactly 1 above it and chat_log holds at most one move
\* or skip of that turn.
C32_OneAcceptedPerTurn ==
    /\ ~(/\ in_flight["h1"].pc # "idle"
         /\ in_flight["h2"].pc # "idle"
         /\ in_flight["h1"].turn = in_flight["h2"].turn
         /\ in_flight["h1"].username = in_flight["h2"].username)
    /\ /\ in_flight["h1"].pc = "done"
       /\ in_flight["h2"].pc = "done"
       /\ in_flight["h1"].turn = in_flight["h2"].turn
       /\ room.status = "started"
       => /\ room.turn = in_flight["h1"].turn + 1
          /\ Cardinality(EffectsOfTurn(room.chat_log, in_flight["h1"].turn)) <= 1

\* --------------------------------------- the disconnect timer next to the handlers
\* remove_player runs on the thread of its threading.Timer.  Its read (line 337) and its
\* write (line 374) are two store calls, with the purge of the local room_data between.

\* remove_player reads the document and finds something to purge: its room_data
purge_get(username) ==
    /\ timers[username] = "running"
    /\ in_flight["timer"].pc = "idle"
    /\ room.status # "ended" /\ RoomChanged(room, username)
    /\ in_flight' = [in_flight EXCEPT !["timer"] = [pc |-> "read", kind |-> "purge", username |-> username,
                                                    turn |-> room.turn, game_over |-> FALSE,
                                                    room_data |-> Purged(room, username)]]
    /\ UNCHANGED <<room, active_rooms, active_turn_timers, disconnection_timers, timers, old_timers>>

\* remove_player writes its room_data
purge_set(username) ==
    /\ timers[username] = "running"
    /\ in_flight["timer"].pc = "read"
    /\ in_flight["timer"].username = username
    /\ room' = in_flight["timer"].room_data
    /\ timers' = [timers EXCEPT ![username] = "written"]
    /\ in_flight' = [in_flight EXCEPT !["timer"] = Idle]
    /\ UNCHANGED <<active_rooms, active_turn_timers, disconnection_timers, old_timers>>

\* the make_move requests of SpecPurgeRace: every user on every target, both types
PurgeRaceRequests ==
    [username : Users, ability_known : {TRUE}, target_user : Users, type : MoveTypes, value : {25}]

\* SpecPurgeRace: a, b and c set up a match, c over a socket; the turn handlers run in one
\* piece each; c's socket is lost during the match and its disconnect timer runs step by
\* step, a new disconnect coming only once the timer before it is through.
NextPurgeRace ==
    \/ \E u \in Users \ {Creator} : InLobby /\ join_room_route(u)
    \/ \E u \in Users, g \in Groups, c \in CharNames : InLobby /\ <<u, g>> \in Teams /\ join_group(u, g, c)
    \/ \E u \in Users : InLobby /\ press_ready(u)
    \/ \E u \in SocketUsers, sid \in SIDs : join_room(u, sid)
    \/ \E sid \in SIDs :
          room.status = "started" /\ (\A u \in Users : timers[u] \notin Unfinished) /\ disconnect(sid)
    \/ \E u \in SocketUsers : timer_expires(u)
    \/ \E u \in SocketUsers : purge_get(u)
    \/ \E u \in SocketUsers : purge_set(u)
    \/ \E u \in SocketUsers : in_flight["timer"].pc = "idle" /\ remove_player_store(u)
    \/ \E u \in SocketUsers : remove_player_cleanup(u)
    \/ room.turn = FirstTurn /\ game_started
    \/ \E r \in PurgeRaceRequests : make_move(r.username, r.ability_known, r.target_user, r.type, r.value)
    \/ \E u \in Users : skip_turn(u)

SpecPurgeRace == Init /\ [][NextPurgeRace]_vars

\* an accepted make_move has been stored since the purge in flight read the document
MoveSincePurgeRead ==
    /\ in_flight["timer"].pc = "read"
    /\ \E i \in DOMAIN room.chat_log :
          /\ i > Len(in_flight["timer"].room_data.chat_log)
          /\ room.chat_log[i].data.kind = "move"

\* C33: the write of a purge whose read came before an accepted make_move keeps what the
\* move stored: the chat_log with the move's entry, the turn (never set back), and the
\* health of every user other than the purged one.
C33_PurgeKeepsMove ==
    [][\A u \in Users :
          MoveSincePurgeRead /\ purge_set(u) =>
              /\ room'.turn >= room.turn
              /\ Len(room'.chat_log) >= Len(room.chat_log)
              /\ SubSeq(room'.chat_log, 1, Len(room.chat_log)) = room.chat_log
              /\ \A p \in DOMAIN Health \ {u} :
                     p \in DOMAIN HealthOf(room') /\ HealthOf(room')[p] = Health[p]]_vars

\* C34: no disconnect timer purges a username (changes the room document in its
\* remove_player) while the registry holds a session of that username.
C34_NoPurgeWithSession ==
    [][/\ \A u \in Users :
             (remove_player(u) \/ remove_player_store(u)) /\ room' # room =>
                 SessionsOf(active_rooms, u) = {}
       /\ \A i \in DOMAIN old_timers :
             old_remove_player_store(i) /\ room' # room =>
                 SessionsOf(active_rooms, old_timers[i].username) = {}]_vars

\* some username's make_move or skip_turn would be accepted in this state
SomeTurnAccepted ==
    \/ \E u \in Users : SkipOf(u).result = "success"
    \/ \E r \in MoveRequests : MoveOf(r).result = "success"

\* C35: a started match is never stuck: in every state with status started there is a
\* username whose make_move or skip_turn would be accepted, so that the players' turns
\* carry the match on to its end.
C35_StartedMatchNotStuck ==
    room.status = "started" => SomeTurnAccepted

\* C36: once the status is ended, no step changes the winner or the stored health.
C36_EndedIsFrozen ==
    [][room.status = "ended" =>
          /\ room'.winner = room.winner
          /\ HealthOf(room') = Health]_vars

\* the members of the two groups of document rd whose stored health is above 0
LivingMembers(rd) ==
    {p \in (DOMAIN rd.group1) \cup (DOMAIN rd.group2) : p \in DOMAIN HealthOf(rd) /\ HealthOf(rd)[p] > 0}

\* C37: while the status is started, every member of group1 or group2 with health above 0
\* is in player_order.
C37_LivingAreInOrder ==
    room.status = "started" => LivingMembers(room) \subseteq Range(room.player_order)

\* ------------------------------------------------- the connection of a turn request
\* make_move arriving on connection sid: on_make_move takes the username from the request
\* (line 255) and never reads request.sid
make_move_on(sid, username, ability_known, target_player, move_type, value) ==
    make_move(username, ability_known, target_player, move_type, value)

\* skip_turn arriving on connection sid (username from the request, line 516)
skip_turn_on(sid, username) == skip_turn(username)

\* the players of SpecConnections
Seated == {"a", "b"}

\* SpecConnections: a and b open socket connections, set up a match and play it; a turn
\* request arrives on either connection.
NextConnections ==
    \/ InLobby /\ join_room_route("b")
    \/ \E u \in Seated, sid \in SIDs : InLobby /\ join_room(u, sid)
    \/ \E u \in Seated, g \in Groups, c \in CharNames : InLobby /\ <<u, g>> \in Teams /\ join_group(u, g, c)
    \/ \E u \in Seated : InLobby /\ press_ready(u)
    \/ room.turn = FirstTurn /\ game_started
    \/ \E sid \in SIDs, r \in MoveRequests :
          make_move_on(sid, r.username, r.ability_known, r.target_user, r.type, r.value)
    \/ \E sid \in SIDs, u \in Users : skip_turn_on(sid, u)

SpecConnections == Init /\ [][NextConnections]_vars

\* the registry holds connection sid for username
HoldsConnection(sid, username) ==
    \E i \in DOMAIN active_rooms : active_rooms[i] = [sid |-> sid, username |-> username]

\* connection sid is held by another user than username, who holds a different one
ForeignConnection(sid, username) ==
    /\ ~HoldsConnection(sid, username)
    /\ \E v \in Users \ {username} : HoldsConnection(sid, v)

\* C38: a make_move or skip_turn that arrives on a connection the registry holds for
\* another user than the username of the request changes neither the room document nor
\* the turn timer.
C38_TurnsOnOwnConnection ==
    [][\A sid \in SIDs :
          /\ \A r \in MoveRequests :
                /\ ForeignConnection(sid, r.username)
                /\ make_move_on(sid, r.username, r.ability_known, r.target_user, r.type, r.value)
                => room' = room /\ active_turn_timers' = active_turn_timers
          /\ \A u \in Users :
                ForeignConnection(sid, u) /\ skip_turn_on(sid, u)
                => room' = room /\ active_turn_timers' = active_turn_timers]_vars

\* ------------------------------------------------------- join_group at any time
\* SpecLateGroups: the lobby, the match and c's socket, with the handlers in one piece
\* each; join_group requests arrive at any time, also while the match is started.
NextLateGroups ==
    \/ \E u \in Users \ {Creator} : InLobby /\ join_room_route(u)
    \/ \E u \in Users, g \in Groups, c \in CharNames : <<u, g>> \in Teams /\ join_group(u, g, c)
    \/ \E u \in Users : InLobby /\ press_ready(u)
    \/ \E u \in SocketUsers : join_room(u, 1)
    \/ disconnect(1)
    \/ \E u \in SocketUsers : remove_player(u)
    \/ room.turn = FirstTurn /\ game_started
    \/ \E r \in PurgeRaceRequests : make_move(r.username, r.ability_known, r.target_user, r.type, r.value)
    \/ \E u \in Users : skip_turn(u)

SpecLateGroups == Init /\ [][NextLateGroups]_vars

\* C39: while the status is started, a step changes group1 or group2 only if it is the
\* purge of a disconnect timer; no join_group step changes them.
C39_GroupsFixedInMatch ==
    [][room.status = "started" /\ (room'.group1 # room.group1 \/ room'.group2 # room.group2) =>
          /\ \E u \in Users : remove_player(u)
          /\ ~JoinGroupStep]_vars

\* C40: a game_started handled for a room whose first turn is set up (current_player is
\* stored) leaves turn, current_player and next_player as they are.
C40_GameStartedIdempotent ==
    [][game_started /\ room.current_player # NoKey =>
          /\ room'.turn = room.turn
          /\ room'.current_player = room.current_player
          /\ room'.next_player = room.next_player]_vars

====
